---- MODULE Spec2Model ----
(***************************************************************************)
(* The two box-drawing Streamlit integrations of the repository:           *)
(*   src/gemini_Testing.py            (Gemini, "Extract & Visualize")      *)
(*   src/surya ocr/claude_testing.py  (Groq,   "Extract & Visualise")      *)
(* A Streamlit script is re-run from its first line on every interaction;  *)
(* one action of this model is one such run.                               *)
(*                                                                         *)
(* Python values are modelled as follows.                                  *)
(*   None / a value        the sequences << >> and << v >>                 *)
(*   a str holding text    a sequence of tokens (Tok, Punct, ...)          *)
(*   a parsed JSON value   a record [type, num, str, keys, items]          *)
(*   a float pixel value   the exact rational v * dim / 1000, written in   *)
(*                         thousandths of a pixel (v * dim); IEEE rounding *)
(*                         of (v / 1000) * dim is monotone, so order       *)
(*                         between two such values is preserved            *)
(*   a PIL image           [size, rects]: the decoded pixels of the upload *)
(*                         of that size plus the rectangles drawn on them  *)
(***************************************************************************)
EXTENDS Integers, Sequences, FiniteSets, TLC

VARIABLES
  app,              \* which script is served: "gemini" or "groq"
  pillow_strict,    \* the installed Pillow rejects x2 < x1 in draw.rectangle
  uploaded_file,    \* uploaded_file (gemini_Testing.py:93): None or the file
  pil,              \* the PIL image objects the last run created
  image,            \* image (line 97): index into pil, 0 when unbound
  annotated_image,  \* annotated_image (line 120): index into pil, 0 when unbound
  response,         \* None, or the outcome of the model call of the last run
  data,             \* data (line 117): None, or the parsed payload
  ui,               \* what the last run displayed
  uncaught          \* None, or the exception that ended the last run uncaught

vars == <<app, pillow_strict, uploaded_file, pil, image, annotated_image,
          response, data, ui, uncaught>>

(* ------------------------------------------------------------------ *)
(* Bounds of the model                                                 *)
(* ------------------------------------------------------------------ *)

\* longest "layout" array a sampled model response carries
MaxLayout == 2

(* ------------------------------------------------------------------ *)
(* Python None / value                                                 *)
(* ------------------------------------------------------------------ *)

None == << >>

Some(v) == << v >>

(* ------------------------------------------------------------------ *)
(* JSON values as json.loads builds them (dict, list, str, int, None)  *)
(* ------------------------------------------------------------------ *)

JNull == [type |-> "null", num |-> 0, str |-> "", keys |-> << >>, items |-> << >>]

JNum(n) == [type |-> "number", num |-> n, str |-> "", keys |-> << >>, items |-> << >>]

JStr(s) == [type |-> "string", num |-> 0, str |-> s, keys |-> << >>, items |-> << >>]

JArr(xs) == [type |-> "array", num |-> 0, str |-> "", keys |-> << >>, items |-> xs]

JObj(ks, vs) == [type |-> "object", num |-> 0, str |-> "", keys |-> ks, items |-> vs]

\* the literals [] and {} of the source
EmptyList == JArr(<< >>)

EmptyDict == JObj(<< >>, << >>)

(* ------------------------------------------------------------------ *)
(* Text: a str is a sequence of tokens                                 *)
(* ------------------------------------------------------------------ *)

Tok(t, s, n) == [t |-> t, s |-> s, n |-> n]

Punct(c) == Tok(c, "", 0)

StrTok(s) == Tok("str", s, 0)

NumTok(n) == Tok("num", "", n)

NullTok == Tok("null", "", 0)

\* a bare word, which is not JSON
Word(s) == Tok("word", s, 0)

RECURSIVE Dumps(_)
RECURSIVE DumpItems(_, _)
RECURSIVE DumpMembers(_, _, _)

\* the text of a JSON value
Dumps(v) ==
  CASE v.type = "null" -> << NullTok >>
    [] v.type = "number" -> << NumTok(v.num) >>
    [] v.type = "string" -> << StrTok(v.str) >>
    [] v.type = "array" -> << Punct("[") >> \o DumpItems(v.items, 1) \o << Punct("]") >>
    [] v.type = "object" ->
         << Punct("{") >> \o DumpMembers(v.keys, v.items, 1) \o << Punct("}") >>

DumpItems(xs, i) ==
  IF i > Len(xs) THEN << >>
  ELSE Dumps(xs[i])
         \o (IF i < Len(xs) THEN << Punct(",") >> ELSE << >>)
         \o DumpItems(xs, i + 1)

DumpMembers(ks, vs, i) ==
  IF i > Len(ks) THEN << >>
  ELSE << StrTok(ks[i]), Punct(":") >> \o Dumps(vs[i])
         \o (IF i < Len(ks) THEN << Punct(",") >> ELSE << >>)
         \o DumpMembers(ks, vs, i + 1)

(* ------------------------------------------------------------------ *)
(* Python results: a value, or the exception raised                    *)
(* ------------------------------------------------------------------ *)

Ok(v) == [exc |-> "", val |-> v]

Raise(e) == [exc |-> e, val |-> JNull]

(* ------------------------------------------------------------------ *)
(* json.loads                                                          *)
(* ------------------------------------------------------------------ *)

NoParse == [ok |-> FALSE, val |-> JNull, next |-> 0]

Parsed(v, n) == [ok |-> TRUE, val |-> v, next |-> n]

\* dict assignment d[k] = v: a repeated key keeps its place and the last value
PutMember(ks, vs, k, v) ==
  IF \E i \in 1..Len(ks) : ks[i] = k
  THEN [keys |-> ks,
        items |-> [i \in 1..Len(vs) |-> IF ks[i] = k THEN v ELSE vs[i]]]
  ELSE [keys |-> Append(ks, k), items |-> Append(vs, v)]

RECURSIVE ParseValue(_, _)
RECURSIVE ParseElements(_, _, _)
RECURSIVE ParseMembers(_, _, _, _)

ParseValue(toks, i) ==
  IF i > Len(toks) THEN NoParse
  ELSE LET tk == toks[i] IN
    CASE tk.t = "num" -> Parsed(JNum(tk.n), i + 1)
      [] tk.t = "str" -> Parsed(JStr(tk.s), i + 1)
      [] tk.t = "null" -> Parsed(JNull, i + 1)
      [] tk.t = "[" ->
           IF i + 1 <= Len(toks) /\ toks[i + 1].t = "]"
           THEN Parsed(EmptyList, i + 2)
           ELSE ParseElements(toks, i + 1, << >>)
      [] tk.t = "{" ->
           IF i + 1 <= Len(toks) /\ toks[i + 1].t = "}"
           THEN Parsed(EmptyDict, i + 2)
           ELSE ParseMembers(toks, i + 1, << >>, << >>)
      [] OTHER -> NoParse

ParseElements(toks, i, acc) ==
  LET r == ParseValue(toks, i) IN
  IF ~r.ok \/ r.next > Len(toks) THEN NoParse
  ELSE IF toks[r.next].t = ","
       THEN ParseElements(toks, r.next + 1, Append(acc, r.val))
       ELSE IF toks[r.next].t = "]"
            THEN Parsed(JArr(Append(acc, r.val)), r.next + 1)
            ELSE NoParse

ParseMembers(toks, i, ks, vs) ==
  IF i + 1 > Len(toks) \/ toks[i].t # "str" \/ toks[i + 1].t # ":" THEN NoParse
  ELSE LET r == ParseValue(toks, i + 2)
           m == PutMember(ks, vs, toks[i].s, r.val)
       IN IF ~r.ok \/ r.next > Len(toks) THEN NoParse
          ELSE IF toks[r.next].t = ","
               THEN ParseMembers(toks, r.next + 1, m.keys, m.items)
               ELSE IF toks[r.next].t = "}"
                    THEN Parsed(JObj(m.keys, m.items), r.next + 1)
                    ELSE NoParse

\* json.loads(s): s is None or a str
JsonLoads(s) ==
  IF s = None THEN Raise("TypeError")
  ELSE LET r == ParseValue(s[1], 1) IN
       IF r.ok /\ r.next = Len(s[1]) + 1 THEN Ok(r.val)
       ELSE Raise("JSONDecodeError")

(* ------------------------------------------------------------------ *)
(* The Python operations the handlers apply to parsed values           *)
(* ------------------------------------------------------------------ *)

\* v.get(key) written without its default: a missing key gives None
PyGetNoDefault(v, key, default) ==
  IF v.type # "object" THEN Raise("AttributeError")
  ELSE IF \E i \in 1..Len(v.keys) : v.keys[i] = key
       THEN Ok(v.items[CHOOSE i \in 1..Len(v.keys) : v.keys[i] = key])
       ELSE Ok(JNull)

\* v.get(key, default): only a dict has .get
PyGet(v, key, default) ==
  IF v.type # "object" THEN Raise("AttributeError")
  ELSE IF \E i \in 1..Len(v.keys) : v.keys[i] = key
       THEN Ok(v.items[CHOOSE i \in 1..Len(v.keys) : v.keys[i] = key])
       ELSE Ok(default)

\* bool(v)
Truthy(v) ==
  CASE v.type = "null" -> FALSE
    [] v.type = "number" -> v.num # 0
    [] v.type = "string" -> v.str # ""
    [] v.type = "array" -> v.items # << >>
    [] v.type = "object" -> v.keys # << >>

\* len(v): [exc, n]
PyLen(v) ==
  CASE v.type = "array" -> [exc |-> "", n |-> Len(v.items)]
    [] v.type = "object" -> [exc |-> "", n |-> Len(v.keys)]
    [] v.type = "string" -> [exc |-> "", n |-> Len(v.str)]
    [] OTHER -> [exc |-> "TypeError", n |-> 0]

\* iter(v): [exc, seq]. A list yields its items, a dict its keys, a str its
\* characters (one-character strs; which character is not tracked).
PyIter(v) ==
  CASE v.type = "array" -> [exc |-> "", seq |-> v.items]
    [] v.type = "object" -> [exc |-> "", seq |-> [i \in 1..Len(v.keys) |-> JStr(v.keys[i])]]
    [] v.type = "string" -> [exc |-> "", seq |-> [i \in 1..Len(v.str) |-> JStr("c")]]
    [] OTHER -> [exc |-> "TypeError", seq |-> << >>]

Min(a, b) == IF a <= b THEN a ELSE b

Max(a, b) == IF a >= b THEN a ELSE b

(* ------------------------------------------------------------------ *)
(* PIL                                                                 *)
(* ------------------------------------------------------------------ *)

\* Image.open(f).convert("RGB"): [exc, img]
ImageOpen(f) ==
  IF f.decodable THEN [exc |-> "", img |-> [size |-> f.size, rects |-> << >>]]
  ELSE [exc |-> "UnidentifiedImageError", img |-> [size |-> <<0, 0>>, rects |-> << >>]]

\* annotated_image = image: a second name for the same object
ImageAlias(heap, ref) == [heap |-> heap, ref |-> ref]

\* image.copy(): a new object with the same pixels. [heap, ref]
ImageCopy(heap, ref) == [heap |-> Append(heap, heap[ref]), ref |-> Len(heap) + 1]

\* draw.rectangle([x1, y1, x2, y2], outline="red", width=3) on the object img.
\* Recent Pillow releases raise ValueError for x2 < x1 or y2 < y1; older ones
\* draw what they are given. strict says which Pillow is installed.
DrawRectangle(img, rect, strict) ==
  IF strict /\ (rect[3] < rect[1] \/ rect[4] < rect[2])
  THEN [exc |-> "ValueError", img |-> img]
  ELSE [exc |-> "", img |-> [img EXCEPT !.rects = Append(@, rect)]]

(* ------------------------------------------------------------------ *)
(* draw_boxes_on_image                                                 *)
(* ------------------------------------------------------------------ *)

\* the 0..1000 scale of box_2d
Scale == 1000

\* n whole pixels, in the unit of the rectangles (1/Scale pixel)
Px(n) == n * Scale

\* width and height taken for each other
NormalizeGeminiSwapped(box, width, height) ==
  LET ymin == Min(box[1], box[3])
      ymax == Max(box[1], box[3])
      xmin == Min(box[2], box[4])
      xmax == Max(box[2], box[4])
  IN <<xmin * height, ymin * width, xmax * height, ymax * width>>

\* Gemini: corners put in order, then (v / 1000) * dimension
NormalizeGemini(box, width, height) ==
  LET ymin == Min(box[1], box[3])
      ymax == Max(box[1], box[3])
      xmin == Min(box[2], box[4])
      xmax == Max(box[2], box[4])
  IN <<xmin * width, ymin * height, xmax * width, ymax * height>>

\* Groq: (v / 1000) * dimension on the corners as given
NormalizeGroq(box, width, height) ==
  <<box[2] * width, box[1] * height, box[4] * width, box[3] * height>>

Normalize(which, box, width, height) ==
  IF which = "gemini" THEN NormalizeGemini(box, width, height)
  ELSE NormalizeGroq(box, width, height)

\* the loop body with `if len(box) == 4:` for `if box and len(box) == 4:`
DrawItemUnguarded(which, img, item, strict) ==
  LET g == PyGet(item, "box_2d", JNull) IN
  IF g.exc # "" THEN [exc |-> g.exc, img |-> img]
  ELSE LET box == g.val IN
    IF PyLen(box).exc # "" THEN [exc |-> PyLen(box).exc, img |-> img]
    ELSE IF PyLen(box).n # 4 THEN [exc |-> "", img |-> img]
    ELSE LET e == PyIter(box).seq IN
      IF \E k \in 1..4 : e[k].type # "number" THEN [exc |-> "TypeError", img |-> img]
      ELSE DrawRectangle(img,
             Normalize(which, <<e[1].num, e[2].num, e[3].num, e[4].num>>,
                       img.size[1], img.size[2]),
             strict)

\* one pass of the loop body for item: [exc, img]
DrawItem(which, img, item, strict) ==
  LET g == PyGet(item, "box_2d", JNull) IN
  IF g.exc # "" THEN [exc |-> g.exc, img |-> img]
  ELSE LET box == g.val IN
    IF ~Truthy(box) THEN [exc |-> "", img |-> img]
    ELSE IF PyLen(box).exc # "" THEN [exc |-> PyLen(box).exc, img |-> img]
    ELSE IF PyLen(box).n # 4 THEN [exc |-> "", img |-> img]
    ELSE LET e == PyIter(box).seq IN
      IF \E k \in 1..4 : e[k].type # "number" THEN [exc |-> "TypeError", img |-> img]
      ELSE DrawRectangle(img,
             Normalize(which, <<e[1].num, e[2].num, e[3].num, e[4].num>>,
                       img.size[1], img.size[2]),
             strict)

RECURSIVE DrawItems(_, _, _, _, _)

\* the for loop from item i on: [exc, img]
DrawItems(which, img, items, i, strict) ==
  IF i > Len(items) THEN [exc |-> "", img |-> img]
  ELSE LET r == DrawItem(which, img, items[i], strict) IN
       IF r.exc # "" THEN r
       ELSE DrawItems(which, r.img, items, i + 1, strict)

\* draw_boxes_on_image(image, json_response), image being the object heap[ref]:
\* [exc, heap]; the function returns the object it was given
draw_boxes_on_image(which, heap, ref, json_response, strict) ==
  LET l == PyGet(json_response, "layout", EmptyList) IN
  IF l.exc # "" THEN [exc |-> l.exc, heap |-> heap]
  ELSE LET it == PyIter(l.val) IN
    IF it.exc # "" THEN [exc |-> it.exc, heap |-> heap]
    ELSE LET r == DrawItems(which, heap[ref], it.seq, 1, strict) IN
         [exc |-> r.exc, heap |-> [heap EXCEPT ![ref] = r.img]]

(* ------------------------------------------------------------------ *)
(* Inputs: uploaded files and what the model call can come back with   *)
(* ------------------------------------------------------------------ *)

\* an uploaded file: whether PIL can decode its bytes, and the pixel size
File(d, w, h) == [decodable |-> d, size |-> <<w, h>>]

Files == {File(TRUE, 1000, 2000), File(TRUE, 3, 1), File(FALSE, 0, 0)}

Box(a, b, c, d) == JArr(<<JNum(a), JNum(b), JNum(c), JNum(d)>>)

Item(text, box) == JObj(<<"text", "box_2d">>, <<JStr(text), box>>)

\* layout entries a model sends: well formed, corners swapped, no box_2d,
\* a box_2d of three values, a box_2d of strings, and an entry that is no object
Entries ==
  { Item("Invoice", Box(0, 0, 100, 500)),
    Item("Total", Box(850, 600, 800, 500)),
    JObj(<<"text">>, <<JStr("X")>>),
    Item("Y", JArr(<<JNum(10), JNum(10), JNum(50)>>)),
    Item("Z", JArr(<<JStr("a"), JStr("b"), JStr("c"), JStr("d")>>)),
    JStr("stray") }

Layouts == UNION { [1..n -> Entries] : n \in 0..MaxLayout }

Invoice == JObj(<<"invoice">>, <<JStr("A1")>>)

\* the response of the end-to-end example of the specification
EndToEnd ==
  JObj(<<"structured_data", "layout">>,
       <<Invoice, JArr(<<Item("Invoice", Box(0, 0, 100, 500))>>)>>)

\* JSON documents a model sends
Documents ==
  { JObj(<<"structured_data", "layout">>, <<Invoice, JArr(l)>>) : l \in Layouts }
  \cup { JObj(<<"structured_data">>, <<JObj(<<"a">>, <<JNum(1)>>)>>),
         JObj(<<"a">>, <<JNum(1)>>),
         JObj(<<"a", "layout">>, <<JNum(1), JArr(<<Item("Invoice", Box(0, 0, 100, 500))>>)>>),
         JArr(<<JNum(1)>>),
         JArr(<<Item("Invoice", Box(0, 0, 100, 500))>>),
         JObj(<<"structured_data", "layout">>, <<Invoice, JNum(5)>>),
         JObj(<<"structured_data", "layout">>, <<Invoice, EmptyDict>>) }

\* texts a model sends: JSON documents, the empty str, prose, JSON inside
\* prose, JSON cut short
Texts ==
  { Dumps(v) : v \in Documents }
  \cup { << >>,
         <<Word("not"), Word("json")>>,
         <<Word("Here")>> \o Dumps(EndToEnd),
         SubSeq(Dumps(EndToEnd), 1, 7) }

\* the outcome of one model call: the call raises, or the response has
\* `choices` choices and the text `text` (None or a str)
Result(raises, choices, text) == [raises |-> raises, choices |-> choices, text |-> text]

Results ==
  { Result(TRUE, 0, None), Result(FALSE, 0, None), Result(FALSE, 1, None) }
  \cup { Result(FALSE, 1, Some(t)) : t \in Texts }

(* ------------------------------------------------------------------ *)
(* The page                                                            *)
(* ------------------------------------------------------------------ *)

\* nothing displayed
BlankUI ==
  [original |-> None, button |-> FALSE, visualized |-> None, json |-> None,
   download |-> None, error |-> None, warning |-> None, code |-> None]

\* the state a script run leaves
Run(h, img, ann, d, u, unc) ==
  [pil |-> h, image |-> img, annotated_image |-> ann, data |-> d, ui |-> u,
   uncaught |-> unc]

\* the run up to the button: Image.open(...).convert("RGB") stands outside any
\* try; then the original image and the button are displayed
Loaded(f) == Run(<<ImageOpen(f).img>>, 1, 0, None,
                 [BlankUI EXCEPT !.original = Some(ImageOpen(f).img), !.button = TRUE],
                 None)

Crashed(f) == Run(<< >>, 0, 0, None, BlankUI, Some(ImageOpen(f).exc))

\* st.error(f"Error: {e}") of the `except Exception as e` clause
Failed(s, e) == [s EXCEPT !.ui.error = Some(e)]

\* lines 119-136 of gemini_Testing.py, 119-131 of claude_testing.py: copy, draw,
\* display the annotated image, the clean view and the download button
Visualize(which, s, d, text, strict) ==
  LET c == ImageCopy(s.pil, s.image)
      b == draw_boxes_on_image(which, c.heap, c.ref, d, strict)
      s1 == [s EXCEPT !.data = Some(d), !.pil = b.heap, !.annotated_image = c.ref]
      clean == PyGet(d, "structured_data", EmptyDict)
  IN IF b.exc # "" THEN Failed(s1, b.exc)
     ELSE LET s2 == [s1 EXCEPT !.ui.visualized = Some(b.heap[c.ref])] IN
          IF clean.exc # "" THEN Failed(s2, clean.exc)
          ELSE [s2 EXCEPT !.ui.json = Some(clean.val), !.ui.download = Some(text)]

\* gemini_Testing.py, one run of the script with a file uploaded
GeminiScript(f, clicked, r, strict) ==
  IF ImageOpen(f).exc # "" THEN Crashed(f)
  ELSE IF ~clicked THEN Loaded(f)
  ELSE IF r.raises THEN Failed(Loaded(f), "APIError")
  ELSE IF r.text = None \/ r.text = Some(<< >>)
       THEN [Loaded(f) EXCEPT !.ui.warning = Some("No response generated.")]
  ELSE LET j == JsonLoads(r.text) IN
       IF j.exc # "" THEN Failed(Loaded(f), j.exc)
       ELSE Visualize("gemini", Loaded(f), j.val, r.text[1], strict)

\* claude_testing.py, one run of the script with a file uploaded
GroqScript(f, clicked, r, strict) ==
  IF ImageOpen(f).exc # "" THEN Crashed(f)
  ELSE IF ~clicked THEN Loaded(f)
  ELSE IF r.raises THEN Failed(Loaded(f), "APIError")
  ELSE IF r.choices = 0 THEN Failed(Loaded(f), "IndexError")
  ELSE LET j == JsonLoads(r.text) IN
       IF j.exc = "JSONDecodeError"
       THEN [Loaded(f) EXCEPT !.ui.error = Some("Groq returned invalid JSON. Try again."),
                              !.ui.code = Some(r.text[1])]
       ELSE IF j.exc # "" THEN Failed(Loaded(f), j.exc)
       ELSE Visualize("groq", Loaded(f), j.val, r.text[1], strict)

Script(which, f, clicked, r, strict) ==
  IF which = "gemini" THEN GeminiScript(f, clicked, r, strict)
  ELSE GroqScript(f, clicked, r, strict)

(* ------------------------------------------------------------------ *)
(* The state machine                                                   *)
(* ------------------------------------------------------------------ *)

Apps == {"gemini", "groq"}

Init ==
  /\ app \in Apps
  /\ pillow_strict \in BOOLEAN
  /\ uploaded_file = None
  /\ pil = << >>
  /\ image = 0
  /\ annotated_image = 0
  /\ response = None
  /\ data = None
  /\ ui = BlankUI
  /\ uncaught = None

Becomes(s) ==
  /\ pil' = s.pil
  /\ image' = s.image
  /\ annotated_image' = s.annotated_image
  /\ data' = s.data
  /\ ui' = s.ui
  /\ uncaught' = s.uncaught

\* the user puts a file in the uploader: the script runs, the button not pressed
Upload ==
  \E f \in Files :
    /\ uploaded_file' = Some(f)
    /\ response' = None
    /\ Becomes(Script(app, f, FALSE, Result(FALSE, 0, None), pillow_strict))
    /\ UNCHANGED <<app, pillow_strict>>

\* the user presses the button the last run displayed: the script runs again
\* from the top, the handler calls the model and gets r
Extract ==
  /\ ui.button
  /\ \E r \in Results :
       /\ response' = Some(r)
       /\ Becomes(Script(app, uploaded_file[1], TRUE, r, pillow_strict))
       /\ UNCHANGED <<app, pillow_strict, uploaded_file>>

Next == Upload \/ Extract

Spec == Init /\ [][Next]_vars

(* ------------------------------------------------------------------ *)
(* Vocabulary of the properties                                        *)
(* ------------------------------------------------------------------ *)

\* the last run was a press of the button
Clicked == response # None

\* the model call of the last run came back with a str
GotText == Clicked /\ ~response[1].raises /\ response[1].choices = 1
             /\ response[1].text # None

RawText == response[1].text[1]

\* the model call of the last run came back with a str that is JSON
GotJson == GotText /\ JsonLoads(response[1].text).exc = ""

Payload == JsonLoads(response[1].text).val

HasKey(v, k) == v.type = "object" /\ \E i \in 1..Len(v.keys) : v.keys[i] = k

Member(v, k) == v.items[CHOOSE i \in 1..Len(v.keys) : v.keys[i] = k]

Ordered(rect) == rect[1] <= rect[3] /\ rect[2] <= rect[4]

\* the size of the uploaded image
Width == uploaded_file[1].size[1]

Height == uploaded_file[1].size[2]

\* a layout entry the loop is to draw: box_2d present with exactly 4 elements
HasBox(e) ==
  HasKey(e, "box_2d") /\ Member(e, "box_2d").type = "array"
    /\ Len(Member(e, "box_2d").items) = 4

\* a layout entry of the data model: an object whose box_2d, if any, is a list
\* of integers
WellTyped(e) ==
  /\ e.type = "object"
  /\ HasKey(e, "box_2d") =>
       /\ Member(e, "box_2d").type = "array"
       /\ \A k \in 1..Len(Member(e, "box_2d").items) :
            Member(e, "box_2d").items[k].type = "number"

\* the rectangle of box_2d = [ymin, xmin, ymax, xmax] on the uploaded image,
\* corners in order, in 1/Scale pixel
RectOf(e) ==
  LET b == Member(e, "box_2d").items IN
  << Min(b[2].num, b[4].num) * Width, Min(b[1].num, b[3].num) * Height,
     Max(b[2].num, b[4].num) * Width, Max(b[1].num, b[3].num) * Height >>

\* one rectangle per entry with a box, in the order of the layout
RectsOf(entries) ==
  LET kept == SelectSeq(entries, HasBox) IN [i \in 1..Len(kept) |-> RectOf(kept[i])]

(* ------------------------------------------------------------------ *)
(* Properties                                                          *)
(* ------------------------------------------------------------------ *)

\* C1: in both integrations every rectangle handed to the renderer, for a box
\* with values in 0..1000 in any corner order, has x1 <= x2 and y1 <= y2.
C1_RectanglesOrdered ==
  \A i \in 1..Len(pil) : \A k \in 1..Len(pil[i].rects) : Ordered(pil[i].rects[k])

\* C2: a response that is JSON without a structured_data key is displayed
\* whole as the clean view, with no error.
C2_WholeValueShown ==
  (GotJson /\ RawText # << >> /\ ~HasKey(Payload, "structured_data"))
    => (ui.json = Some(Payload) /\ ui.error = None)

\* C3: a non-empty response that is not JSON ends the action with an error and
\* the raw text displayed, and with neither a clean view nor an annotated image.
C3_RawTextSurfaced ==
  (GotText /\ RawText # << >> /\ JsonLoads(response[1].text).exc = "JSONDecodeError")
    => (/\ ui.error # None
        /\ ui.code = Some(RawText)
        /\ ui.json = None
        /\ ui.visualized = None)

EndToEndCase ==
  /\ GotText
  /\ RawText = Dumps(EndToEnd)
  /\ uploaded_file = Some(File(TRUE, 1000, 2000))

\* C5 as stated: the end-to-end example draws exactly one rectangle, from pixel
\* (0,0) to pixel (1000,200), and the clean view is {"invoice":"A1"}.
C5_AsStated ==
  EndToEndCase
    => (/\ ui.visualized # None
        /\ ui.visualized[1].rects = << <<Px(0), Px(0), Px(1000), Px(200)>> >>
        /\ ui.json = Some(Invoice))

\* C5 amended: the end-to-end example draws exactly one rectangle, from pixel
\* (0,0) to pixel (500,200) (x = 500 * 1000 / 1000, y = 100 * 2000 / 1000), and
\* the clean view is {"invoice":"A1"}.
C5_EndToEnd ==
  EndToEndCase
    => (/\ ui.visualized # None
        /\ ui.visualized[1].rects = << <<Px(0), Px(0), Px(500), Px(200)>> >>
        /\ ui.json = Some(Invoice))

C5_Witness ==
  /\ EndToEndCase
  /\ ui.visualized # None
  /\ Len(ui.visualized[1].rects) = 1
  /\ ui.json = Some(Invoice)

\* C6: a model call that returns without error but with no content (no
\* choices, null or empty text) ends in a warning, never in the error path, and
\* nothing is parsed or drawn.
C6_EmptyIsWarning ==
  (/\ Clicked
   /\ ~response[1].raises
   /\ (response[1].choices = 0 \/ response[1].text = None
         \/ response[1].text = Some(<< >>)))
    => (/\ ui.warning # None
        /\ ui.error = None
        /\ ui.code = None
        /\ data = None
        /\ annotated_image = 0)

\* C7: annotation leaves the source image as it was loaded (drawing happens on
\* a copy), and the annotated image is the one a fresh copy of the source gets
\* from the same payload, whatever ran before.
C7_SourceUntouched ==
  image # 0
    => (/\ pil[image] = ImageOpen(uploaded_file[1]).img
        /\ ui.original = Some(pil[image])
        /\ ui.visualized # None
             => (/\ annotated_image # image
                 /\ ui.visualized[1]
                      = draw_boxes_on_image(app, <<ImageOpen(uploaded_file[1]).img>>, 1,
                                            data[1], pillow_strict).heap[1]))

C7_Witness ==
  /\ image # 0
  /\ ui.visualized # None
  /\ Len(ui.visualized[1].rects) = 2
  /\ pil[image].rects = << >>

\* C8: a payload with structured_data and no layout draws no rectangle,
\* reports no error and displays the value of structured_data.
C8_NoLayoutNoBoxes ==
  (/\ GotJson /\ RawText # << >>
   /\ HasKey(Payload, "structured_data")
   /\ ~HasKey(Payload, "layout"))
    => (/\ ui.error = None
        /\ ui.warning = None
        /\ ui.visualized # None
        /\ ui.visualized[1].rects = << >>
        /\ ui.json = Some(Member(Payload, "structured_data")))

C8_Witness ==
  /\ GotJson
  /\ HasKey(Payload, "structured_data")
  /\ ~HasKey(Payload, "layout")
  /\ ui.visualized # None
  /\ ui.json = Some(JObj(<<"a">>, <<JNum(1)>>))

\* C9: no failure while handling an uploaded image leaves the script uncaught.
C9_NothingEscapes == uncaught = None

\* C10: for every response that parses as JSON the clean view and the download
\* (the raw text verbatim) are produced, whether or not drawing succeeds.
C10_PackagingIndependent ==
  (GotJson /\ RawText # << >>)
    => (ui.json # None /\ ui.download = Some(RawText))

====
